---- MODULE Spec2Model ----
(***************************************************************************)
(* Model of examples/cholesteric.py: a sequential script that builds a     *)
(* cholesteric liquid-crystal stack, calls the solver s.getJones once per  *)
(* wavelength, post-processes the result with array arithmetic, prints     *)
(* diagnostic lines and shows a chart.                                     *)
(*                                                                         *)
(* Numbers.  Refractive indices are held in hundredths (IdxDen), lengths   *)
(* in nanometres, and wavelengths in units of 1 nm / (IdxDen*(NSamples-1)) *)
(* so that every sample of numpy.linspace and the product p*n_med are      *)
(* exact integers.  A complex number is a pair <<re, im>>.  An ndarray is  *)
(* a record [shape, data] with the data in row-major order.                *)
(***************************************************************************)
EXTENDS Integers, Sequences, FiniteSets, TLC

\* ---------------------------------------------------------------- bounds
\* The solver is an external collaborator; its numeric behaviour is drawn
\* from a bounded family indexed by a seed, with amplitudes below 2*AmpMod.
MaxSeed == 2
AmpMod == 3

\* ------------------------------------------------------ program constants
IdxDen == 100
glass_n == 155
no == 150
ne == 160
p == 650
N == 25
lbda_min == 800
lbda_max == 1200
NSamples == 100
Kx0 == 0

Dn == ne - no
n_med == (ne + no) \div 2

\* Source lines of the print calls, in program order.
PrintLines == <<70, 71, 72, 73, 74, 75, 76, 79, 80, 81, 82, 83, 84>>

\* ------------------------------------------------------------ numpy model
\* f[lo] + ... + f[hi].
RECURSIVE SumRange(_, _, _)
SumRange(f, lo, hi) == IF lo > hi THEN 0 ELSE f[lo] + SumRange(f, lo + 1, hi)

RECURSIVE Prod(_)
Prod(q) == IF q = <<>> THEN 1 ELSE q[1] * Prod(Tail(q))

Front(q) == SubSeq(q, 1, Len(q) - 1)

Mag(x) == IF x < 0 THEN 0 - x ELSE x

\* numpy.linspace(a, b, n): n evenly spaced samples, both ends included.
Linspace(a, b, n) ==
    [k \in 1..n |-> (a * (n - 1) + (k - 1) * (b - a)) * IdxDen]

\* 2*pi/lbda, kept as the exact fraction piNum*pi/den.
WaveNumber(lbda) == [piNum |-> 2, den |-> lbda]

RECURSIVE ShapeN(_, _)
ShapeN(x, d) == IF d = 0 THEN <<>> ELSE <<Len(x)>> \o ShapeN(x[1], d - 1)

\* The item at row-major offset off (zero-based) of a nested sequence of
\* shape shp.
RECURSIVE ItemAt(_, _, _)
ItemAt(x, off, shp) ==
    IF shp = <<>> THEN x
    ELSE LET sz == Prod(Tail(shp))
         IN ItemAt(x[(off \div sz) + 1], off % sz, Tail(shp))

\* numpy.array(list) for a list of equally shaped items of rank d.
NpArray(list, d) ==
    LET shp == ShapeN(list, d + 1)
    IN [shape |-> shp, data |-> [j \in 1..Prod(shp) |-> ItemAt(list, j - 1, shp)]]

\* abs(z)**2 of one complex number.
Abs2(z) == z[1] * z[1] + z[2] * z[2]

\* abs(A)**2, element-wise.
AbsSquared(A) ==
    [shape |-> A.shape, data |-> [j \in 1..Len(A.data) |-> Abs2(A.data[j])]]

\* A.sum(axis=-1): sum over the last axis.
SumLastAxis(A) ==
    LET n == A.shape[Len(A.shape)]
        m == Prod(Front(A.shape))
    IN [shape |-> Front(A.shape),
        data |-> [j \in 1..m |-> SumRange(A.data, (j - 1) * n + 1, j * n)]]

Halve_none(A) == A

\* A / 2, element-wise.
Halve(A) ==
    [shape |-> A.shape, data |-> [j \in 1..Len(A.data) |-> A.data[j] \div 2]]

\* numpy.transpose(A): axes reversed; the identity on rank 0 and 1.
Transpose(A) ==
    IF Len(A.shape) < 2 THEN A
    ELSE LET r == A.shape[1]
             c == A.shape[2]
         IN [shape |-> <<c, r>>,
             data |-> [j \in 1..(r * c) |->
                          A.data[((j - 1) % r) * c + ((j - 1) \div r) + 1]]]

\* Row k (1-based) of a rank-2 array, as a sequence.
Row(A, k) == [c \in 1..A.shape[2] |-> A.data[(k - 1) * A.shape[2] + c]]

CanUnpack2_axis(A) == Len(A.shape) = 2 /\ A.shape[2] = 2

\* (x, y) = A succeeds only when iterating A yields exactly two items.
CanUnpack2(A) == Len(A.shape) = 2 /\ A.shape[1] = 2

\* A[i, 1, :, :] with i zero-based: needs rank 4 and both indices in range.
CanIndexT(A, i0) ==
    /\ Len(A.shape) = 4
    /\ i0 < A.shape[1]
    /\ 1 < A.shape[2]

IndexT(A, i0) ==
    LET r == A.shape[3]
        c == A.shape[4]
        base == (i0 * A.shape[2] + 1) * r * c
    IN [a \in 1..r |-> [b \in 1..c |-> A.data[base + (a - 1) * c + b]]]

\* numpy.argmin(abs(list - x)): zero-based index of the first minimum.
\* ArgminIn gives the one-based index of the first minimum within lo..hi;
\* a minimum in the right half wins only when strictly smaller.
RECURSIVE ArgminIn(_, _, _, _)
ArgminIn(list, x, lo, hi) ==
    IF lo = hi THEN lo
    ELSE LET mid == (lo + hi) \div 2
             l == ArgminIn(list, x, lo, mid)
             r == ArgminIn(list, x, mid + 1, hi)
         IN IF Mag(list[r] - x) < Mag(list[l] - x) THEN r ELSE l

ArgminAbsDiff_off(list, x) == ArgminIn(list, x, 1, Len(list))

ArgminAbsDiff(list, x) == ArgminIn(list, x, 1, Len(list)) - 1

\* --------------------------------------------------- the external solver
\* Kinds of value the solver may hand back: a single 2x2 or 4x4 complex
\* matrix, as the written contract has it, or the (reflection, transmission)
\* pair of such matrices that line 67 reads with J[i,1,:,:].
RetKinds == {"m2", "m4", "pair2", "pair4"}

IsPairKind(kind) == kind \in {"pair2", "pair4"}

RetRank(kind) == IF IsPairKind(kind) THEN 3 ELSE 2

BlockSize(kind) == IF kind \in {"m2", "pair2"} THEN 2 ELSE 4

Hash(lam) == (lam \div IdxDen) % 7

\* Amplitudes have even real and imaginary parts, so every power is a
\* multiple of 4 and the halving of line 62 is exact in the integers.

Amp(sd, h, blk, a, b) ==
    <<2 * ((sd + h + 3 * blk + 2 * a + b) % AmpMod),
      2 * ((sd * (blk + 1) + h * (a + 1) + b) % AmpMod)>>

Mat(sd, h, blk, n) == [a \in 1..n |-> [b \in 1..n |-> Amp(sd, h, blk, a, b)]]

\* s.getJones(Kx, k0): a deterministic function of its arguments.
getJones(kind, sd, st, kx, k0) ==
    LET h == Hash(k0.den) + kx + st.back.material.n
        n == BlockSize(kind)
    IN IF IsPairKind(kind) THEN <<Mat(sd, h, 0, n), Mat(sd, h, 1, n)>>
       ELSE Mat(sd, h, 0, n)

\* ------------------------------------- the library's change of basis
CAdd(z, w) == <<z[1] + w[1], z[2] + w[2]>>

CSub(z, w) == <<z[1] - w[1], z[2] - w[2]>>

\* i*z.
CTimesI(z) == <<0 - z[2], z[1]>>

\* z/2; exact on the even sums that circularJones forms.
CHalf(z) == <<z[1] \div 2, z[2] \div 2>>

\* The change of basis is defined on 2x2 Jones blocks only.
CircularDefined(A) ==
    /\ Len(A.shape) >= 2
    /\ A.shape[Len(A.shape)] = 2
    /\ A.shape[Len(A.shape) - 1] = 2

\* Berreman4x4.extractCoefficient(P, name) reads one coefficient out of the
\* (block, row, column) axes of a sweep of Jones pairs; on an array without
\* that layout it may raise.
ExtractMayRaise(P) == Len(P.shape) # 4

\* Berreman4x4.circularJones(A): every 2x2 block M of the last two axes
\* becomes C^-1 M C with C = [[1, 1], [i, -i]]/sqrt(2), that is
\* [[1, -i], [1, i]] M [[1, 1], [i, -i]] / 2.
circularJones(A) ==
    [shape |-> A.shape,
     data |-> [j \in 1..Len(A.data) |->
        LET g == (j - 1) \div 4
            a == ((j - 1) % 4) \div 2
            b == (j - 1) % 2
            m(x, y) == A.data[g * 4 + 2 * x + y + 1]
            left(y) == IF a = 0 THEN CSub(m(0, y), CTimesI(m(1, y)))
                       ELSE CAdd(m(0, y), CTimesI(m(1, y)))
        IN CHalf(IF b = 0 THEN CAdd(left(0), CTimesI(left(1)))
                 ELSE CSub(left(0), CTimesI(left(1))))]]

\* ------------------------------------------------------------------ state
VARIABLES pc, bound, retKind, seed, front, back, s, Kx,
          lbda_B, lbda_list, k0_list, acc, calls,
          J, power, R_np, T_np, i, T, Jc, out, shown, raised, log

vars == <<pc, bound, retKind, seed, front, back, s, Kx,
          lbda_B, lbda_list, k0_list, acc, calls,
          J, power, R_np, T_np, i, T, Jc, out, shown, raised, log>>

solverVars == <<retKind, seed>>
objectVars == <<front, back, s, Kx>>
paramVars == <<lbda_B, lbda_list, k0_list>>
resultVars == <<J, power, R_np, T_np, i, T, Jc>>

NoObject == [id |-> 0]
NoArray == [shape |-> <<0>>, data |-> <<>>]

\* The stage an action belongs to is appended to log when it differs from
\* the stage of the previous action.
Stamp(lg, stage) ==
    IF lg # <<>> /\ lg[Len(lg)] = stage THEN lg ELSE Append(lg, stage)

Init ==
    /\ pc = "materials"
    /\ bound = {}
    /\ retKind \in RetKinds
    /\ seed \in 0..MaxSeed
    /\ front = NoObject /\ back = NoObject /\ s = NoObject /\ Kx = 0 - 1
    /\ lbda_B = 0 /\ lbda_list = <<>> /\ k0_list = <<>>
    /\ acc = <<>> /\ calls = <<>>
    /\ J = NoArray /\ power = NoArray /\ Jc = NoArray
    /\ R_np = <<>> /\ T_np = <<>> /\ i = 0 - 1 /\ T = <<>>
    /\ out = <<>> /\ shown = FALSE /\ raised = 0 /\ log = <<>>

\* Lines 15-35: materials, layers and the structure.
HalfSpace == [id |-> 1, material |-> [n |-> glass_n]]

BackHalfSpace_air == [id |-> 3, material |-> [n |-> IdxDen]]

BackHalfSpace == HalfSpace

Layers ==
    <<[repeat |-> N,
       layer |-> [no |-> no, ne |-> ne, d |-> p \div 2, div |-> 40]]>>

Structure(f, layers, b) == [id |-> 2, front |-> f, layers |-> layers, back |-> b]

Materials ==
    /\ pc = "materials"
    /\ front' = HalfSpace
    /\ back' = BackHalfSpace
    /\ s' = Structure(front', Layers, back')
    /\ bound' = bound \cup {"glass", "front", "back", "no", "ne", "Dn",
                            "n_med", "LC", "R", "p", "TN", "IL", "N", "h",
                            "L", "s"}
    /\ log' = Stamp(log, "construct")
    /\ pc' = "parameters"
    /\ UNCHANGED <<solverVars, Kx, paramVars, acc, calls, resultVars, out, shown, raised>>

\* Lines 38-49: incidence, wavelength grid, analytical values.
BraggWavelength == p * n_med * (NSamples - 1)

lbda_B1 == p * no * (NSamples - 1)

lbda_B2 == p * ne * (NSamples - 1)

Parameters ==
    /\ pc = "parameters"
    /\ Kx' = Kx0
    /\ lbda_B' = BraggWavelength
    /\ lbda_list' = Linspace(lbda_min, lbda_max, NSamples)
    /\ k0_list' = [k \in 1..NSamples |-> WaveNumber(lbda_list'[k])]
    /\ bound' = bound \cup {"Kx", "lbda_min", "lbda_max", "lbda_B",
                            "lbda_list", "k0_list", "R_th", "lbda_B1",
                            "lbda_B2"}
    /\ log' = Stamp(log, "construct")
    /\ pc' = "sweep"
    /\ UNCHANGED <<solverVars, front, back, s, acc, calls, resultVars, out, shown, raised>>

\* Line 53, one iteration of the comprehension: the solver returns.
Call(k) == [s |-> s, Kx |-> Kx, k0 |-> k0_list[k]]

NextSample_rev(done) == NSamples - done

NextSample(done) == done + 1

SweepCall ==
    /\ pc = "sweep"
    /\ Len(calls) < Len(k0_list)
    /\ LET k == NextSample(Len(calls))
       IN /\ calls' = Append(calls, Call(k))
          /\ acc' = Append(acc, getJones(retKind, seed, s, Kx, k0_list[k]))
    /\ log' = Stamp(log, "sweep")
    /\ UNCHANGED <<pc, bound, solverVars, objectVars, paramVars, resultVars,
                   out, shown, raised>>

\* Line 53, one iteration of the comprehension: the solver raises.  Nothing
\* catches the exception, so the script ends there.
AfterRaise_swallow == "sweep"

AfterRaise == "crashed"

SweepRaise ==
    /\ pc = "sweep"
    /\ Len(calls) < Len(k0_list)
    /\ calls' = Append(calls, Call(NextSample(Len(calls))))
    /\ log' = Stamp(log, "sweep")
    /\ pc' = AfterRaise
    /\ raised' = 53
    /\ UNCHANGED <<bound, solverVars, objectVars, paramVars, acc, resultVars,
                   out, shown>>

\* Line 53, the comprehension is exhausted: numpy.array binds J.
BindJ ==
    /\ pc = "sweep"
    /\ Len(calls) = Len(k0_list)
    /\ J' = NpArray(acc, RetRank(retKind))
    /\ bound' = bound \cup {"J"}
    /\ log' = Stamp(log, "sweep")
    /\ pc' = "post"
    /\ UNCHANGED <<solverVars, objectVars, paramVars, acc, calls,
                   power, R_np, T_np, i, T, Jc, out, shown, raised>>

\* Lines 54-68: power coefficients in the linear basis, unpolarized
\* coefficients, transmission matrix in the middle of the stop band.
Power(A) == AbsSquared(A)

TotalPower(P) == Halve(SumLastAxis(SumLastAxis(P)))

StopBandIndex == ArgminAbsDiff(lbda_list, lbda_B)

PostOk ==
    /\ CanUnpack2(Transpose(TotalPower(Power(J))))
    /\ CanIndexT(J, StopBandIndex)

PostLinear ==
    /\ pc = "post"
    /\ PostOk
    /\ power' = Power(J)
    /\ LET tp == Transpose(TotalPower(power'))
       IN /\ R_np' = Row(tp, 1)
          /\ T_np' = Row(tp, 2)
    /\ i' = StopBandIndex
    /\ T' = IndexT(J, i')
    /\ bound' = bound \cup {"power", "T_pp", "R_pp", "T_sp", "R_sp",
                            "total_power", "R_np", "T_np", "i", "T",
                            "eigenvalues", "eigenvectors"}
    /\ log' = Stamp(log, "post")
    /\ pc' = "print"
    /\ UNCHANGED <<solverVars, objectVars, paramVars, acc, calls, J, Jc, out, shown,
                   raised>>

\* Lines 54-55 when the library's extractCoefficient raises at line 55.
ExtractRaise ==
    /\ pc = "post"
    /\ ExtractMayRaise(Power(J))
    /\ power' = Power(J)
    /\ bound' = bound \cup {"power"}
    /\ log' = Stamp(log, "post")
    /\ pc' = "crashed"
    /\ raised' = 55
    /\ UNCHANGED <<solverVars, objectVars, paramVars, acc, calls, J,
                   R_np, T_np, i, T, Jc, out, shown>>

\* Lines 54-68 when the unpacking of line 63 or the indexing of line 67
\* raises: the names bound before the failing line stay bound.
PostLinearRaise ==
    /\ pc = "post"
    /\ ~PostOk
    /\ power' = Power(J)
    /\ bound' = bound \cup {"power", "T_pp", "R_pp", "T_sp", "R_sp",
                            "total_power"}
    /\ log' = Stamp(log, "post")
    /\ pc' = "crashed"
    /\ raised' = IF CanUnpack2(Transpose(TotalPower(power'))) THEN 67 ELSE 63
    /\ UNCHANGED <<solverVars, objectVars, paramVars, acc, calls, J,
                   R_np, T_np, i, T, Jc, out, shown>>

\* Lines 69-84: one print call; the statement after the last print is line 87.
AfterPrint_skip(n) == "circular"

AfterPrint(n) == IF n = Len(PrintLines) THEN "circular" ELSE "print"

PrintLine ==
    /\ pc = "print"
    /\ Len(out) < Len(PrintLines)
    /\ out' = Append(out, PrintLines[Len(out) + 1])
    /\ log' = Stamp(log, "print")
    /\ pc' = AfterPrint(Len(out'))
    /\ UNCHANGED <<bound, solverVars, objectVars, paramVars, acc, calls,
                   resultVars, shown, raised>>

\* Lines 87-98: Jones matrices in the circular basis and the coefficients
\* that are plotted; line 88 rebinds the name power to the circular-basis
\* powers.
PostCircular ==
    /\ pc = "circular"
    /\ CircularDefined(J)
    /\ Jc' = circularJones(J)
    /\ power' = AbsSquared(Jc')
    /\ bound' = bound \cup {"Jc", "R_RR", "T_RR", "T_LL", "R_LL"}
    /\ log' = Stamp(log, "post")
    /\ pc' = "plot"
    /\ UNCHANGED <<solverVars, objectVars, paramVars, acc, calls,
                   J, R_np, T_np, i, T, out, shown, raised>>

\* Line 87 when circularJones is handed blocks that are not 2x2.
PostCircularRaise ==
    /\ pc = "circular"
    /\ ~CircularDefined(J)
    /\ log' = Stamp(log, "post")
    /\ pc' = "crashed"
    /\ raised' = 87
    /\ UNCHANGED <<bound, solverVars, objectVars, paramVars, acc, calls,
                   resultVars, out, shown>>

\* Lines 102-127: the figure is built.
Plot ==
    /\ pc = "plot"
    /\ bound' = bound \cup {"fig", "ax", "rectangle", "fmt"}
    /\ log' = Stamp(log, "plot")
    /\ pc' = "show"
    /\ UNCHANGED <<solverVars, objectVars, paramVars, acc, calls,
                   resultVars, out, shown, raised>>

\* Line 128: pyplot.show().
Show ==
    /\ pc = "show"
    /\ shown' = TRUE
    /\ log' = Stamp(log, "plot")
    /\ pc' = "done"
    /\ UNCHANGED <<bound, solverVars, objectVars, paramVars, acc, calls,
                   resultVars, out, raised>>

Next ==
    \/ Materials
    \/ Parameters
    \/ SweepCall
    \/ SweepRaise
    \/ BindJ
    \/ PostLinear
    \/ ExtractRaise
    \/ PostLinearRaise
    \/ PrintLine
    \/ PostCircular
    \/ PostCircularRaise
    \/ Plot
    \/ Show

Spec == Init /\ [][Next]_vars

\* ------------------------------------------------------------ properties
IsPrefix(a, b) == Len(a) <= Len(b) /\ a = SubSeq(b, 1, Len(a))

SweepDone == "J" \in bound

PostDone == "T" \in bound

\* Sum of the squared moduli of the cells of a nested square block.
RECURSIVE CellPower(_, _)
CellPower(m, cells) ==
    IF cells = {} THEN 0
    ELSE LET c == CHOOSE x \in cells : TRUE
         IN Abs2(m[c[1]][c[2]]) + CellPower(m, cells \ {c})

\* Sum of the squared moduli of all entries of a nested square block: the
\* four entries of a 2x2 block, the sixteen of a 4x4 block.
BlockPower(m) ==
    IF Len(m) = 2
    THEN Abs2(m[1][1]) + Abs2(m[1][2]) + Abs2(m[2][1]) + Abs2(m[2][2])
    ELSE CellPower(m, (1..Len(m)) \X (1..Len(m)))

\* Row-major flattening of a nested sequence of rank d.
RECURSIVE Flat(_, _)
RECURSIVE FlatAll(_, _)
Flat(x, d) == IF d = 0 THEN <<x>> ELSE FlatAll(x, d - 1)
FlatAll(xs, d) ==
    IF xs = <<>> THEN <<>> ELSE Flat(xs[1], d) \o FlatAll(Tail(xs), d)

\* Entry k (1-based) of the array J, as a flat sequence.
EntryOfJ(k) ==
    LET sz == Len(J.data) \div J.shape[1]
    IN [j \in 1..sz |-> J.data[(k - 1) * sz + j]]

EntryIsMatrix ==
    /\ Len(J.shape) = 3
    /\ J.shape[2] = J.shape[3]
    /\ J.shape[2] \in {2, 4}

\* Every entry of J is a stack of exactly two square blocks, 2x2 or 4x4.
EntryIsPair ==
    /\ Len(J.shape) = 4
    /\ J.shape[1] = NSamples
    /\ J.shape[2] = 2
    /\ J.shape[3] = J.shape[4]
    /\ J.shape[3] \in {2, 4}

\* Lines of the script's own array handling of J: the sums of line 62, the
\* unpacking of line 63, the indexing of line 67.
IndexingLines == {62, 63, 67}

\* C1 as stated: the stages construct, sweep, post-processing, printing,
\* plotting each run once and in that order; nothing is printed before the
\* last solver call has returned; the chart is shown after the last print.
C1_StagesAsStated ==
    /\ IsPrefix(log, <<"construct", "sweep", "post", "print", "plot">>)
    /\ (out # <<>> => Len(acc) = NSamples)
    /\ (shown => out = PrintLines)

\* C1 amended: the order is construct, sweep, post-processing (linear basis),
\* printing, post-processing (circular basis), plotting; nothing is printed
\* before the last solver call has returned and J is bound; the chart is
\* shown only after every diagnostic line has been printed.
C1_StageOrder ==
    /\ IsPrefix(log, <<"construct", "sweep", "post", "print", "post", "plot">>)
    /\ (out # <<>> => Len(acc) = NSamples /\ SweepDone /\ PostDone)
    /\ (\A n \in 1..Len(out) : out[n] = PrintLines[n])
    /\ ("Jc" \in bound => out = PrintLines)
    /\ (shown => out = PrintLines /\ "Jc" \in bound /\ "fig" \in bound)

C1_Witness ==
    /\ shown
    /\ out = PrintLines
    /\ log = <<"construct", "sweep", "post", "print", "post", "plot">>

\* C2: the solver is called once per sample of lbda_list, in order of
\* increasing wavelength, always with the structure s, Kx = 0 and
\* k0 = 2*pi/lambda of that sample; once J is bound it has one entry per
\* sample and entry k is the value returned by call k.
C2_SweepCalls ==
    /\ Len(calls) <= NSamples
    /\ \A k \in 1..Len(calls) :
          /\ calls[k].s = s
          /\ calls[k].Kx = 0
          /\ calls[k].k0.piNum = 2
          /\ calls[k].k0.den = lbda_list[k]
          /\ k > 1 => calls[k - 1].k0.den < calls[k].k0.den
    /\ SweepDone =>
          /\ Len(calls) = NSamples
          /\ Len(lbda_list) = NSamples
          /\ J.shape[1] = Len(lbda_list)
          /\ \A k \in 1..NSamples :
                /\ acc[k] = getJones(retKind, seed, calls[k].s, calls[k].Kx,
                                     calls[k].k0)
                /\ EntryOfJ(k) = Flat(acc[k], RetRank(retKind))

C2_Witness == SweepDone /\ Len(calls) = NSamples /\ Len(acc) = NSamples

\* C3 as stated: every entry of J that the post-processing consumes is a
\* 2x2 or 4x4 matrix, and the unpacking into (R_np, T_np) and the indexing
\* J[i,1,:,:] are well defined on such entries.
C3_MatrixAsStated ==
    /\ (PostDone => EntryIsMatrix)
    /\ (SweepDone /\ EntryIsMatrix => raised = 0)

\* C3 amended: every entry of J that the post-processing consumes is a pair
\* (reflection, transmission) of 2x2 or of 4x4 matrices, shape 2x2x2 or
\* 2x4x4; on that shape the sums, the unpacking and J[i,1,:,:] are well
\* defined: R_np and T_np get NSamples values each and T is one square block;
\* on a single 2x2 or 4x4 matrix per wavelength the script raises at line
\* 63 at the latest and R_np, T_np, T are never bound.
C3_PairConsumed ==
    /\ (PostDone =>
          /\ EntryIsPair
          /\ Len(R_np) = NSamples /\ Len(T_np) = NSamples
          /\ Len(T) = J.shape[3]
          /\ \A a \in 1..Len(T) : Len(T[a]) = J.shape[4])
    /\ (SweepDone /\ EntryIsPair => raised \notin IndexingLines /\ raised # 55)
    /\ (SweepDone /\ EntryIsPair /\ pc # "post" => PostDone)
    /\ (SweepDone /\ EntryIsMatrix /\ pc # "post" =>
          /\ raised \in {55, 63}
          /\ ~PostDone
          /\ bound \cap {"R_np", "T_np", "T"} = {})

C3_Witness == PostDone /\ EntryIsPair /\ pc = "print" /\ Len(T) = 4

\* C4: when a solver call raises, the script stops at that call: the call
\* that raised is the last one made, J and every later name stay unbound,
\* nothing is printed and no chart is shown.
C4_NoRecovery ==
    raised = 53 =>
        /\ pc = "crashed"
        /\ Len(calls) = Len(acc) + 1
        /\ bound \cap {"J", "power", "total_power", "R_np", "T_np", "i", "T",
                       "Jc", "R_RR", "T_RR", "fig"} = {}
        /\ J = NoArray /\ power = NoArray /\ Jc = NoArray
        /\ R_np = <<>> /\ T_np = <<>> /\ T = <<>>
        /\ out = <<>>
        /\ ~shown

C4_Witness == raised = 53 /\ Len(acc) >= 1 /\ Len(calls) < NSamples

\* C5: front and back are the same glass half-space of index 1.55 when the
\* structure is built, and every solver call sees that same structure and
\* Kx = 0, which are still the current values of s, front, back and Kx.
C5_IdenticalHalfSpaces ==
    "s" \in bound =>
        /\ front = back
        /\ front.material.n * 100 = 155 * IdxDen
        /\ s.front = front /\ s.back = back
        /\ \A k \in 1..Len(calls) :
              /\ calls[k].s = calls[1].s
              /\ calls[k].s = s
              /\ calls[k].s.front = calls[k].s.back
              /\ calls[k].Kx = calls[1].Kx
              /\ calls[k].Kx = Kx

C5_Witness == Len(calls) = NSamples /\ front = back /\ SweepDone

\* C6: for every wavelength index k, R_np[k] is half the summed power of
\* the reflection block (block 0) and T_np[k] half the summed power of the
\* transmission block (block 1) of the value returned for wavelength k; T
\* is taken from that same transmission block.
C6_Unpolarized ==
    PostDone =>
        /\ Len(R_np) = NSamples
        /\ Len(T_np) = NSamples
        /\ \A k \in 1..NSamples :
              /\ 2 * R_np[k] = BlockPower(acc[k][1])
              /\ 2 * T_np[k] = BlockPower(acc[k][2])
        /\ T = acc[i + 1][2]

C6_Witness ==
    /\ PostDone
    /\ \E k \in 1..NSamples : R_np[k] # T_np[k] /\ R_np[k] > 0

\* C7: i is a valid index of lbda_list whose wavelength is the first one
\* closest to lbda_B; lbda_B is the midpoint of [p*no, p*ne] and lies in
\* the swept range, so lbda_list[i] is within half a grid step of it; T is
\* the transmission block of the sweep result at index i.
C7_StopBandIndex ==
    PostDone =>
        /\ 0 <= i /\ i < NSamples
        /\ \A k \in 1..NSamples :
              Mag(lbda_list[i + 1] - lbda_B) <= Mag(lbda_list[k] - lbda_B)
        /\ \A k \in 1..i :
              Mag(lbda_list[i + 1] - lbda_B) < Mag(lbda_list[k] - lbda_B)
        /\ 2 * lbda_B = lbda_B1 + lbda_B2
        /\ lbda_list[1] <= lbda_B /\ lbda_B <= lbda_list[NSamples]
        /\ 2 * Mag(lbda_list[i + 1] - lbda_B) <= lbda_list[2] - lbda_list[1]
        /\ T = acc[i + 1][2]

C7_Witness == PostDone /\ i = 51 /\ out # <<>>

====
